---- MODULE Spec2Model ----
(***************************************************************************)
(* Hybrid AI agent: app.py (Streamlit chat handler) and hybrid_agent.py    *)
(* (two provider calls run on a two-worker thread pool, then one judge     *)
(* call).  One chat turn is one synchronous call of hybrid_agent_execute   *)
(* on the script thread; the provider calls run on the pool's workers.     *)
(*                                                                         *)
(* Python values are modelled as follows: a str is a TLA+ string, a dict   *)
(* is a function whose DOMAIN is its key set, an optional value is a       *)
(* sequence of length 0 or 1, a raised Exception e is carried as str(e).   *)
(***************************************************************************)
EXTENDS Integers, Sequences, FiniteSets, TLC

VARIABLES
    client_gpt,      \* TRUE iff the module-level name client_gpt is bound
    client_gemini,   \* TRUE iff the module-level name client_gemini is bound
    messages,        \* st.session_state.messages
    pc,              \* position of the script thread
    user_prompt,     \* argument of the running hybrid_agent_execute call
    future,          \* future_gpt / future_gemini of the running call
    work_queue,      \* the executor's work queue (FIFO)
    worker,          \* the worker threads started by the executor
    threads,         \* executor._threads: the worker threads it has recorded
    idle_semaphore,  \* the executor's count of idle workers
    results,         \* the dict built by run_parallel_calls
    pending_exc,     \* exception propagating on the script thread, if any
    reply,           \* what each client call did, once it ended
    completed,       \* the provider calls that ended, in the order they ended
    requests,        \* requests sent by the running call, per endpoint
    synth_args,      \* arguments of the synthesize_best_result call, if made
    outcome          \* how hybrid_agent_execute ended (return value / raise)

vars == << client_gpt, client_gemini, messages, pc, user_prompt, future,
           work_queue, worker, threads, idle_semaphore, results, pending_exc,
           reply, completed, requests, synth_args, outcome >>

-----------------------------------------------------------------------------
(* Bounds and input sets *)

MaxTurns == 2

Prompts == {"2+2?", "Capital of France?"}

GptTexts == {"4"}
GeminiTexts == {"The answer is 4."}
JudgeTexts == {"Four."}
GptErrors == {"connection reset"}
GeminiErrors == {"quota exceeded"}
JudgeErrors == {"judge unavailable"}

Ok(text) == [kind |-> "ok", text |-> text]
Raises(msg) == [kind |-> "raise", msg |-> msg]

GptReplies == {Ok(t) : t \in GptTexts} \cup {Raises(m) : m \in GptErrors}
GeminiReplies == {Ok(t) : t \in GeminiTexts} \cup {Raises(m) : m \in GeminiErrors}
JudgeReplies == {Ok(t) : t \in JudgeTexts} \cup {Raises(m) : m \in JudgeErrors}

-----------------------------------------------------------------------------
(* hybrid_agent.py: configuration and module-level client construction *)

GPT_MODEL == "gpt-3.5-turbo"
GEMINI_MODEL == "gemini-2.5-pro"
ARBITER_MODEL == "gemini-2.5-pro"

\* ThreadPoolExecutor(max_workers=1)
SingleWorker == 2 - 1

MaxWorkers == 2

Tasks == {"gpt", "gemini"}
Endpoints == Tasks \cup {"judge"}

\* a request as the client call sends it: the model it names and its contents
ModelOf(e) ==
    IF e = "gpt" THEN GPT_MODEL
    ELSE IF e = "gemini" THEN GEMINI_MODEL ELSE ARBITER_MODEL

Request(e, contents) == [model |-> ModelOf(e), contents |-> contents]

\* The constructor that raises, if any.  client_gpt is assigned first; a
\* raise jumps to the except clause, which prints and lets the import go on,
\* so every later assignment of the try block is skipped.
InitFailures == {"none", "openai", "genai"}

ModuleInit(failure) ==
    [gpt    |-> failure = "none" \/ failure = "genai",
     gemini |-> failure = "none"]

\* str(NameError) for a read of an unbound module-level name
NameError(name) == "name '" \o name \o "' is not defined"

-----------------------------------------------------------------------------
(* hybrid_agent.py: the three call functions, as functions of what the     *)
(* client call inside their try block did                                  *)

Return(value) == [kind |-> "return", value |-> value]
Raise(exc) == [kind |-> "raise", exc |-> exc]

get_gpt_response_unguarded(r) ==
    IF r.kind = "ok" THEN Return(r.text) ELSE Raise(r.msg)

get_gpt_response(r) ==
    IF r.kind = "ok"
    THEN Return(r.text)
    ELSE Return("[GPT_ERROR] Failed to get response: " \o r.msg)

get_gemini_response_unguarded(r) ==
    IF r.kind = "ok" THEN Return(r.text) ELSE Raise(r.msg)

get_gemini_response(r) ==
    IF r.kind = "ok"
    THEN Return(r.text)
    ELSE Return("[GEMINI_ERROR] Failed to get response: " \o r.msg)

synthesis_meta_prompt(original_prompt, gpt_output, gemini_output) ==
    "\n    You are the **AI Arbiter**. Your sole mission is to critique and synthesize two distinct AI model outputs into a single, flawless, and superior final answer for the user's prompt. \n\n"
    \o "    **Original User Prompt:**\n    " \o original_prompt \o "\n\n"
    \o "    **Output A (GPT-3.5):**\n    ---\n    " \o gpt_output \o "\n    ---\n\n"
    \o "    **Output B (Gemini 2.5 Pro):**\n    ---\n    " \o gemini_output \o "\n    ---\n\n"
    \o "    **INSTRUCTIONS:** Combine the strongest elements, correct any errors, and ensure the final answer is perfectly tailored to the original prompt. Generate only the polished, final response. Do NOT mention the names of the models or the critique process.\n    "

synthesize_best_result_unguarded(r) ==
    IF r.kind = "ok" THEN Return(r.text) ELSE Raise(r.msg)

synthesize_best_result(r) ==
    IF r.kind = "ok"
    THEN Return(r.text)
    ELSE Return("[SYNTHESIS_CRITICAL_ERROR] Synthesis failed. Error: " \o r.msg)

\* The provider function run by a work item, and the client it reads
ProviderFunction(task, r) ==
    IF task = "gpt" THEN get_gpt_response(r) ELSE get_gemini_response(r)

ClientBound(task) == IF task = "gpt" THEN client_gpt ELSE client_gemini
ClientName(task) == IF task = "gpt" THEN "client_gpt" ELSE "client_gemini"
ProviderReplies(task) == IF task = "gpt" THEN GptReplies ELSE GeminiReplies

-----------------------------------------------------------------------------
(* State after construction *)

NoFuture == [state |-> "none", result |-> << >>, exception |-> << >>]
NoOutcome == [kind |-> "none"]
EmptyDict == [k \in {} |-> ""]
Greeting ==
    [role |-> "assistant",
     content |-> "Hello! I am your Hybrid Agent. Ask me a complex question to see my synthesis in action."]

Init ==
    /\ \E failure \in InitFailures :
          /\ client_gpt = ModuleInit(failure).gpt
          /\ client_gemini = ModuleInit(failure).gemini
    /\ messages = << Greeting >>
    /\ pc = "idle"
    /\ user_prompt = ""
    /\ future = [t \in Tasks |-> NoFuture]
    /\ work_queue = << >>
    /\ worker = [w \in 1..MaxWorkers |-> "absent"]
    /\ threads = {}
    /\ idle_semaphore = 0
    /\ results = EmptyDict
    /\ pending_exc = << >>
    /\ reply = [e \in Endpoints |-> << >>]
    /\ completed = << >>
    /\ requests = [e \in Endpoints |-> << >>]
    /\ synth_args = << >>
    /\ outcome = NoOutcome

-----------------------------------------------------------------------------
(* concurrent.futures.ThreadPoolExecutor as used by run_parallel_calls *)

\* The worker threads that have been started; a thread is added to
\* executor._threads only once Thread.start() has returned.
Started == {w \in 1..MaxWorkers : worker[w] # "absent"}
\* A worker thread is "blocked" in work_queue.get(), runs a provider function
\* ("gpt" / "gemini"), has "ran" a work item and not yet raised the idle
\* count, or has "exited".
FreeWorkers == {w \in 1..MaxWorkers : worker[w] \in {"ran", "blocked"}}
NextThread == CHOOSE w \in 1..MaxWorkers :
                 /\ worker[w] = "absent"
                 /\ \A v \in 1..MaxWorkers : worker[v] = "absent" => w <= v

\* _adjust_thread_count() starts a thread only if no idle count can be
\* taken and the pool is not full.
NeedsThread == idle_semaphore = 0 /\ Cardinality(threads) < MaxWorkers

AdjustPc(task) == IF task = "gpt" THEN "adjust_gpt" ELSE "adjust_gemini"
StartPc(task) == IF task = "gpt" THEN "start_gpt" ELSE "start_gemini"
StartedPc(task) == IF task = "gpt" THEN "started_gpt" ELSE "started_gemini"
NextSubmit(task) == IF task = "gpt" THEN "submit_gemini" ELSE "result_gpt"

\* executor.submit(fn, prompt), step 1: the future is created and its work
\* item queued (_work_queue.put); a worker may take it from here on.
Submit(task) ==
    /\ future' = [future EXCEPT ![task].state = "pending"]
    /\ work_queue' = Append(work_queue, task)
    /\ pc' = AdjustPc(task)
    /\ UNCHANGED << worker, threads, idle_semaphore, pending_exc >>

\* executor.submit, step 2: _adjust_thread_count() tries the idle semaphore
\* (acquire(timeout=0)).  With an idle count taken, or with the pool full,
\* submit returns the future; otherwise a thread is to be started.  Workers
\* run on between this read and the thread start.
AdjustThreadCount(task) ==
    /\ IF NeedsThread
       THEN /\ pc' = StartPc(task)
            /\ UNCHANGED idle_semaphore
       ELSE /\ idle_semaphore' = IF idle_semaphore > 0
                                 THEN idle_semaphore - 1 ELSE idle_semaphore
            /\ pc' = NextSubmit(task)
    /\ UNCHANGED << future, work_queue, worker, threads, pending_exc >>

\* executor.submit, step 3: Thread.start() starts the worker thread, which
\* runs (and may take the queued item) while the script thread is still
\* inside start() and submit.
StartThread(task) ==
    /\ worker' = [worker EXCEPT ![NextThread] = "blocked"]
    /\ pc' = StartedPc(task)
    /\ UNCHANGED << future, work_queue, threads, idle_semaphore, pending_exc >>

\* executor.submit, step 3 raising: Thread.start() raises RuntimeError, which
\* leaves submit and the with block (through __exit__); the work item stays
\* queued.
StartThreadRaises(task) ==
    /\ pending_exc' = << "can't start new thread" >>
    /\ pc' = "exit"
    /\ UNCHANGED << future, work_queue, worker, threads, idle_semaphore >>

\* executor.submit, step 4: start() returns, the thread is recorded in
\* _threads and submit returns the future.
SubmitReturns(task) ==
    /\ threads' = threads \cup Started
    /\ pc' = NextSubmit(task)
    /\ UNCHANGED << future, work_queue, worker, idle_semaphore, pending_exc >>

\* future.result(): blocks until the future is finished, then returns its
\* result or raises its exception.
ResultReady(f) == f.state = "finished"

\* shutdown(wait=False): __exit__ joins nothing.
WorkersNotJoined == TRUE

\* with-block __exit__: shutdown(wait=True) joins every worker thread.
WorkersJoined == \A w \in threads : worker[w] = "exited"

-----------------------------------------------------------------------------
(* app.py: the chat input handler, up to the call of hybrid_agent_execute  *)

ChatInput ==
    /\ pc = "idle"
    /\ Len(messages) < 1 + 2 * MaxTurns
    /\ \E prompt \in Prompts :
          /\ messages' = Append(messages, [role |-> "user", content |-> prompt])
          /\ user_prompt' = prompt
    /\ pc' = "submit_gpt"
    /\ future' = [t \in Tasks |-> NoFuture]
    /\ work_queue' = << >>
    /\ worker' = [w \in 1..MaxWorkers |-> "absent"]
    /\ threads' = {}
    /\ idle_semaphore' = 0
    /\ results' = EmptyDict
    /\ pending_exc' = << >>
    /\ reply' = [e \in Endpoints |-> << >>]
    /\ completed' = << >>
    /\ requests' = [e \in Endpoints |-> << >>]
    /\ synth_args' = << >>
    /\ outcome' = NoOutcome
    /\ UNCHANGED << client_gpt, client_gemini >>

-----------------------------------------------------------------------------
(* hybrid_agent.py: run_parallel_calls on the script thread *)

SubmitGpt ==
    /\ pc = "submit_gpt"
    /\ Submit("gpt")
    /\ UNCHANGED << client_gpt, client_gemini, messages, user_prompt, results,
                    reply, completed, requests, synth_args, outcome >>

SubmitGemini ==
    /\ pc = "submit_gemini"
    /\ Submit("gemini")
    /\ UNCHANGED << client_gpt, client_gemini, messages, user_prompt, results,
                    reply, completed, requests, synth_args, outcome >>

AdjustGpt ==
    /\ pc = "adjust_gpt"
    /\ AdjustThreadCount("gpt")
    /\ UNCHANGED << client_gpt, client_gemini, messages, user_prompt, results,
                    reply, completed, requests, synth_args, outcome >>

AdjustGemini ==
    /\ pc = "adjust_gemini"
    /\ AdjustThreadCount("gemini")
    /\ UNCHANGED << client_gpt, client_gemini, messages, user_prompt, results,
                    reply, completed, requests, synth_args, outcome >>

StartThreadGpt ==
    /\ pc = "start_gpt"
    /\ StartThread("gpt")
    /\ UNCHANGED << client_gpt, client_gemini, messages, user_prompt, results,
                    reply, completed, requests, synth_args, outcome >>

StartThreadGptRaises ==
    /\ pc = "start_gpt"
    /\ StartThreadRaises("gpt")
    /\ UNCHANGED << client_gpt, client_gemini, messages, user_prompt, results,
                    reply, completed, requests, synth_args, outcome >>

SubmitGptReturns ==
    /\ pc = "started_gpt"
    /\ SubmitReturns("gpt")
    /\ UNCHANGED << client_gpt, client_gemini, messages, user_prompt, results,
                    reply, completed, requests, synth_args, outcome >>

StartThreadGemini ==
    /\ pc = "start_gemini"
    /\ StartThread("gemini")
    /\ UNCHANGED << client_gpt, client_gemini, messages, user_prompt, results,
                    reply, completed, requests, synth_args, outcome >>

StartThreadGeminiRaises ==
    /\ pc = "start_gemini"
    /\ StartThreadRaises("gemini")
    /\ UNCHANGED << client_gpt, client_gemini, messages, user_prompt, results,
                    reply, completed, requests, synth_args, outcome >>

SubmitGeminiReturns ==
    /\ pc = "started_gemini"
    /\ SubmitReturns("gemini")
    /\ UNCHANGED << client_gpt, client_gemini, messages, user_prompt, results,
                    reply, completed, requests, synth_args, outcome >>

\* results[key] = fut.result()
Retrieve(key, fut, nextpc) ==
    /\ ResultReady(fut)
    /\ IF fut.exception # << >>
       THEN /\ pending_exc' = fut.exception
            /\ pc' = "exit"
            /\ UNCHANGED results
       ELSE /\ results' = (key :> fut.result[1]) @@ results
            /\ pc' = nextpc
            /\ UNCHANGED pending_exc
    /\ UNCHANGED << client_gpt, client_gemini, messages, user_prompt, future,
                    work_queue, worker, idle_semaphore, threads, reply, requests,
                    synth_args, outcome, completed >>

RetrieveGptSwapped ==
    /\ pc = "result_gpt"
    /\ Retrieve("gpt", future["gemini"], "result_gemini")

RetrieveGpt ==
    /\ pc = "result_gpt"
    /\ Retrieve("gpt", future["gpt"], "result_gemini")

RetrieveGemini ==
    /\ pc = "result_gemini"
    /\ Retrieve("gemini", future["gemini"], "exit")

\* leaving the with block: shutdown(wait=True) queues the stop marker ...
ExecutorShutdown ==
    /\ pc = "exit"
    /\ work_queue' = Append(work_queue, "STOP")
    /\ pc' = "join"
    /\ UNCHANGED << client_gpt, client_gemini, messages, user_prompt, future,
                    worker, idle_semaphore, threads, results, pending_exc, reply,
                    requests, synth_args, outcome, completed >>

\* ... and joins the workers; then run_parallel_calls returns results, or
\* the pending exception leaves run_parallel_calls and hybrid_agent_execute.
ExecutorJoin ==
    /\ pc = "join"
    /\ WorkersJoined
    /\ IF pending_exc # << >>
       THEN /\ outcome' = Raise(pending_exc[1])
            /\ pc' = "raised"
       ELSE /\ pc' = "synthesize"
            /\ UNCHANGED outcome
    /\ UNCHANGED << client_gpt, client_gemini, messages, user_prompt, future,
                    work_queue, worker, idle_semaphore, threads, results, pending_exc,
                    reply, requests, synth_args, completed >>

-----------------------------------------------------------------------------
(* The executor's worker threads running the submitted provider functions *)

Finished(completion) ==
    IF completion.kind = "return"
    THEN [state |-> "finished", result |-> << completion.value >>,
          exception |-> << >>]
    ELSE [state |-> "finished", result |-> << >>,
          exception |-> << completion.exc >>]

\* A worker blocked on the queue takes the next work item and enters the provider function:
\* the client call sends its request, or, the client name being unbound,
\* raises NameError inside the try block at once.
WorkerRun(w) ==
    /\ worker[w] = "blocked"
    /\ work_queue # << >>
    /\ Head(work_queue) \in Tasks
    /\ LET task == Head(work_queue) IN
          /\ work_queue' = Tail(work_queue)
          /\ IF ClientBound(task)
             THEN /\ requests' = [requests EXCEPT
                                     ![task] = Append(@, Request(task, user_prompt))]
                  /\ future' = [future EXCEPT ![task].state = "running"]
                  /\ worker' = [worker EXCEPT ![w] = task]
                  /\ UNCHANGED << reply, completed >>
             ELSE LET r == Raises(NameError(ClientName(task))) IN
                  /\ reply' = [reply EXCEPT ![task] = << r >>]
                  /\ completed' = Append(completed, task)
                  /\ future' = [future EXCEPT
                                   ![task] = Finished(ProviderFunction(task, r))]
                  /\ worker' = [worker EXCEPT ![w] = "ran"]
                  /\ UNCHANGED requests
    /\ UNCHANGED << client_gpt, client_gemini, messages, pc, user_prompt,
                    idle_semaphore, threads, results, pending_exc, synth_args,
                    outcome >>

\* A failed client call sends the request again instead of giving up.
ProviderCompleteRetrying(w) ==
    /\ worker[w] \in Tasks
    /\ LET task == worker[w] IN
       \E r \in ProviderReplies(task) :
          /\ reply' = [reply EXCEPT ![task] = << r >>]
          /\ IF r.kind = "raise" /\ Len(requests[task]) < 2
             THEN /\ requests' = [requests EXCEPT
                                     ![task] = Append(@, Request(task, user_prompt))]
                  /\ UNCHANGED << future, worker, completed >>
             ELSE /\ future' = [future EXCEPT
                                   ![task] = Finished(ProviderFunction(task, r))]
                  /\ worker' = [worker EXCEPT ![w] = "ran"]
                  /\ completed' = Append(completed, task)
                  /\ UNCHANGED requests
    /\ UNCHANGED << client_gpt, client_gemini, messages, pc, user_prompt,
                    work_queue, idle_semaphore, threads, results, pending_exc,
                    synth_args, outcome >>

\* The client call of a running provider function ends, by returning a
\* response or by raising; the function returns and the future is set.
ProviderComplete(w) ==
    /\ worker[w] \in Tasks
    /\ LET task == worker[w] IN
       \E r \in ProviderReplies(task) :
          /\ reply' = [reply EXCEPT ![task] = << r >>]
          /\ future' = [future EXCEPT
                           ![task] = Finished(ProviderFunction(task, r))]
          /\ worker' = [worker EXCEPT ![w] = "ran"]
          /\ completed' = Append(completed, task)
    /\ UNCHANGED << client_gpt, client_gemini, messages, pc, user_prompt,
                    work_queue, idle_semaphore, threads, results, pending_exc,
                    requests, synth_args, outcome >>

\* After every work item the worker raises the idle count, whatever the
\* queue holds, and goes back to work_queue.get().
WorkerIdle(w) ==
    /\ worker[w] = "ran"
    /\ idle_semaphore' = idle_semaphore + 1
    /\ worker' = [worker EXCEPT ![w] = "blocked"]
    /\ UNCHANGED << client_gpt, client_gemini, messages, pc, user_prompt,
                    future, work_queue, threads, results, pending_exc, reply, requests,
                    synth_args, outcome, completed >>

\* A worker that takes the stop marker puts it back and exits.
WorkerStop(w) ==
    /\ worker[w] = "blocked"
    /\ work_queue # << >>
    /\ Head(work_queue) = "STOP"
    /\ worker' = [worker EXCEPT ![w] = "exited"]
    /\ UNCHANGED << client_gpt, client_gemini, messages, pc, user_prompt,
                    future, work_queue, idle_semaphore, threads, results, pending_exc,
                    reply, requests, synth_args, outcome, completed >>

-----------------------------------------------------------------------------
(* hybrid_agent.py: hybrid_agent_execute after run_parallel_calls returned *)

Ended(completion) == IF completion.kind = "return" THEN "returned" ELSE "raised"

IsErrorSentinel(s) == Len(s) >= 1 /\ SubSeq(s, 1, 1) = "["

\* hybrid_agent_execute returns a failed provider's sentinel as it is.
SynthesizeUnlessError ==
    /\ pc = "synthesize"
    /\ IF IsErrorSentinel(results["gpt"])
       THEN /\ outcome' = Return(results["gpt"])
            /\ pc' = "returned"
            /\ UNCHANGED << synth_args, requests >>
       ELSE /\ synth_args' = << [original_prompt |-> user_prompt,
                                 gpt_output |-> results["gpt"],
                                 gemini_output |-> results["gemini"]] >>
            /\ IF client_gemini
               THEN /\ requests' = [requests EXCEPT !.judge = Append(@,
                          Request("judge",
                             synthesis_meta_prompt(user_prompt, results["gpt"],
                                                   results["gemini"])))]
                    /\ pc' = "judge"
                    /\ UNCHANGED outcome
               ELSE /\ outcome' = synthesize_best_result(
                                     Raises(NameError("client_gemini")))
                    /\ pc' = Ended(outcome')
                    /\ UNCHANGED requests
    /\ UNCHANGED << client_gpt, client_gemini, messages, user_prompt, future,
                    work_queue, worker, idle_semaphore, threads, results, pending_exc,
                    reply, completed >>

\* gpt_result, gemini_result = raw_outputs[...]; synthesize_best_result is
\* called with them: the meta-prompt is built and the judge request sent, or,
\* client_gemini being unbound, NameError is raised inside the try block.
Synthesize ==
    /\ pc = "synthesize"
    /\ synth_args' = << [original_prompt |-> user_prompt,
                         gpt_output |-> results["gpt"],
                         gemini_output |-> results["gemini"]] >>
    /\ IF client_gemini
       THEN /\ requests' = [requests EXCEPT !.judge = Append(@,
                  Request("judge",
                     synthesis_meta_prompt(synth_args'[1].original_prompt,
                                           synth_args'[1].gpt_output,
                                           synth_args'[1].gemini_output)))]
            /\ pc' = "judge"
            /\ UNCHANGED << outcome, reply >>
       ELSE LET r == Raises(NameError("client_gemini")) IN
            /\ reply' = [reply EXCEPT !.judge = << r >>]
            /\ outcome' = synthesize_best_result(r)
            /\ pc' = Ended(outcome')
            /\ UNCHANGED requests
    /\ UNCHANGED << client_gpt, client_gemini, messages, user_prompt, future,
                    work_queue, worker, idle_semaphore, threads, results, pending_exc,
                    completed >>

\* The judge call ends, by returning a response or by raising;
\* synthesize_best_result and then hybrid_agent_execute return (or raise).
JudgeComplete ==
    /\ pc = "judge"
    /\ \E r \in JudgeReplies :
          /\ reply' = [reply EXCEPT !.judge = << r >>]
          /\ outcome' = synthesize_best_result(r)
          /\ pc' = Ended(outcome')
    /\ UNCHANGED << client_gpt, client_gemini, messages, user_prompt, future,
                    work_queue, worker, idle_semaphore, threads, results, pending_exc,
                    requests, synth_args, completed >>

-----------------------------------------------------------------------------
(* app.py: the chat input handler, after the call of hybrid_agent_execute  *)

\* final_response = hybrid_agent_execute(prompt); the history gains it.
HandlerReturn ==
    /\ pc = "returned"
    /\ messages' = Append(messages,
                          [role |-> "assistant", content |-> outcome.value])
    /\ pc' = "idle"
    /\ UNCHANGED << client_gpt, client_gemini, user_prompt, future, work_queue,
                    worker, idle_semaphore, threads, results, pending_exc, reply,
                    requests, synth_args, outcome, completed >>

\* The exception leaves the handler; the script run ends without the append.
HandlerExceptEscapes ==
    /\ pc = "raised"
    /\ pc' = "idle"
    /\ UNCHANGED << client_gpt, client_gemini, messages, user_prompt, future,
                    work_queue, worker, idle_semaphore, threads, results, pending_exc,
                    reply, requests, synth_args, outcome, completed >>

\* except Exception as e: final_response = f"A critical error ...: {e}"
HandlerExcept ==
    /\ pc = "raised"
    /\ messages' = Append(messages,
          [role |-> "assistant",
           content |-> "A critical error occurred in the Agent pipeline: "
                       \o outcome.exc])
    /\ pc' = "idle"
    /\ UNCHANGED << client_gpt, client_gemini, user_prompt, future, work_queue,
                    worker, idle_semaphore, threads, results, pending_exc, reply,
                    requests, synth_args, outcome, completed >>

-----------------------------------------------------------------------------
(* Specifications *)

Next ==
    \/ ChatInput
    \/ SubmitGpt
    \/ SubmitGemini
    \/ AdjustGpt
    \/ AdjustGemini
    \/ StartThreadGpt
    \/ StartThreadGemini
    \/ StartThreadGptRaises
    \/ StartThreadGeminiRaises
    \/ SubmitGptReturns
    \/ SubmitGeminiReturns
    \/ RetrieveGpt
    \/ RetrieveGemini
    \/ ExecutorShutdown
    \/ ExecutorJoin
    \/ Synthesize
    \/ JudgeComplete
    \/ HandlerReturn
    \/ HandlerExcept
    \/ \E w \in 1..MaxWorkers : WorkerRun(w)
    \/ \E w \in 1..MaxWorkers : ProviderComplete(w)
    \/ \E w \in 1..MaxWorkers : WorkerIdle(w)
    \/ \E w \in 1..MaxWorkers : WorkerStop(w)

Spec == Init /\ [][Next]_vars

\* Every thread that can take a step eventually takes one, and every client
\* call that was sent eventually ends (by returning or by raising).  Nothing
\* forces the user to type a prompt or a thread start to fail.
Fairness ==
    /\ WF_vars(SubmitGpt)
    /\ WF_vars(SubmitGemini)
    /\ WF_vars(AdjustGpt)
    /\ WF_vars(AdjustGemini)
    /\ WF_vars(StartThreadGpt \/ StartThreadGptRaises)
    /\ WF_vars(StartThreadGemini \/ StartThreadGeminiRaises)
    /\ WF_vars(SubmitGptReturns)
    /\ WF_vars(SubmitGeminiReturns)
    /\ WF_vars(RetrieveGpt)
    /\ WF_vars(RetrieveGemini)
    /\ WF_vars(ExecutorShutdown)
    /\ WF_vars(ExecutorJoin)
    /\ WF_vars(Synthesize)
    /\ WF_vars(JudgeComplete)
    /\ WF_vars(HandlerReturn)
    /\ WF_vars(HandlerExcept)
    /\ \A w \in 1..MaxWorkers :
          /\ WF_vars(WorkerRun(w))
          /\ WF_vars(ProviderComplete(w))
          /\ WF_vars(WorkerIdle(w))
          /\ WF_vars(WorkerStop(w))

FairSpec == Spec /\ Fairness

-----------------------------------------------------------------------------
(* Vocabulary of the properties *)

StartsWith(s, prefix) ==
    Len(s) >= Len(prefix) /\ SubSeq(s, 1, Len(prefix)) = prefix

Contains(s, part) ==
    \E i \in 1..(Len(s) - Len(part) + 1) : SubSeq(s, i, i + Len(part) - 1) = part

ThreadStartError == "can't start new thread"

Failed(e) == reply[e] # << >> /\ reply[e][1].kind = "raise"
Succeeded(e) == reply[e] # << >> /\ reply[e][1].kind = "ok"

\* run_parallel_calls has returned its dict to hybrid_agent_execute
DispatchReturned ==
    \/ pc \in {"synthesize", "judge", "returned"}
    \/ pc = "idle" /\ outcome.kind = "return"

\* synthesize_best_result has been entered by the running / last invocation
SynthesisEntered == synth_args # << >>

\* the text a provider's slot must hold, given what its client call did
SlotText(task, r) ==
    IF r.kind = "ok" THEN r.text
    ELSE (IF task = "gpt" THEN "[GPT_ERROR]" ELSE "[GEMINI_ERROR]")
         \o " Failed to get response: " \o r.msg

\* the user message of the turn being handled (or handled last)
TurnPrompt ==
    IF pc = "idle" THEN messages[Len(messages) - 1].content
    ELSE messages[Len(messages)].content

-----------------------------------------------------------------------------
\* C1: whatever the two provider calls do (return text or raise), no
\* exception leaves get_gpt_response / get_gemini_response: no future ever
\* holds an exception, the only exception that can leave run_parallel_calls
\* is a failed thread start in submit, and whenever run_parallel_calls has
\* returned, both 'gpt' and 'gemini' are keys of the dict, each with a string.
C1_BothSlotsPopulated ==
    /\ \A t \in Tasks : future[t].exception = << >>
    /\ pending_exc # << >> => pending_exc = << ThreadStartError >>
    /\ DispatchReturned =>
          /\ DOMAIN results = Tasks
          /\ \A t \in Tasks : results[t] \in STRING /\ reply[t] # << >>

C1_Witness ==
    /\ pc = "synthesize"
    /\ Failed("gpt") /\ Failed("gemini")
    /\ client_gpt /\ client_gemini
    /\ DOMAIN results = Tasks

\* C2: a failed provider call leaves the sentinel
\* '[<PROVIDER>_ERROR] Failed to get response: <message>' in its slot, and
\* once run_parallel_calls has returned and hybrid_agent_execute has moved
\* on, synthesize_best_result has been entered with that sentinel as the
\* corresponding output; no invocation returns without having entered it,
\* and none ends by raising a provider's error.
C2_FailureReachesSynthesis ==
    /\ outcome.kind = "raise" => outcome.exc = ThreadStartError
    /\ \A t \in Tasks :
          (Failed(t) /\ t \in DOMAIN results) =>
             results[t] = SlotText(t, reply[t][1])
    /\ (DispatchReturned /\ pc # "synthesize") =>
          /\ SynthesisEntered
          /\ Failed("gpt") =>
                synth_args[1].gpt_output = SlotText("gpt", reply["gpt"][1])
          /\ Failed("gemini") =>
                synth_args[1].gemini_output =
                    SlotText("gemini", reply["gemini"][1])

C2_Witness ==
    /\ pc = "judge"
    /\ reply["gpt"] = << Raises("connection reset") >>
    /\ reply["gemini"] = << Raises("quota exceeded") >>
    /\ synth_args[1].gpt_output =
          "[GPT_ERROR] Failed to get response: connection reset"
    /\ synth_args[1].gemini_output =
          "[GEMINI_ERROR] Failed to get response: quota exceeded"

\* C3: if the judge call fails, hybrid_agent_execute returns (does not
\* raise) a string starting with '[SYNTHESIS_CRITICAL_ERROR]', whatever the
\* two provider calls did before.
C3_JudgeFailureReturnsSentinel ==
    Failed("judge") =>
       /\ outcome.kind = "return"
       /\ StartsWith(outcome.value, "[SYNTHESIS_CRITICAL_ERROR]")
       /\ pc \in {"returned", "idle"}

C3_Witness ==
    /\ pc = "returned"
    /\ reply["judge"] = << Raises("judge unavailable") >>
    /\ Succeeded("gpt") /\ Failed("gemini")

\* the script thread is inside run_parallel_calls: it has neither returned
\* from it nor left it by an exception
InsideDispatch ==
    pc \in {"submit_gpt", "adjust_gpt", "start_gpt", "started_gpt",
            "submit_gemini", "adjust_gemini", "start_gemini", "started_gemini",
            "result_gpt", "result_gemini", "exit", "join"}

\* C4: while a provider call is in progress the script thread is still inside
\* run_parallel_calls: it has neither returned nor raised, the judge request
\* has not been sent and synthesize_best_result has not been entered; and
\* run_parallel_calls returns only with both futures finished.
C4_FanInWaitsForBoth ==
    /\ (\E t \in Tasks : future[t].state = "running") =>
          /\ InsideDispatch
          /\ requests["judge"] = << >>
          /\ ~SynthesisEntered
          /\ outcome = NoOutcome
    /\ DispatchReturned => \A t \in Tasks : future[t].state = "finished"

\* the GPT call has already failed, the Gemini call is still in progress,
\* and the script thread is blocked on future_gemini.result()
C4_Witness ==
    /\ pc = "result_gemini"
    /\ Failed("gpt")
    /\ future["gpt"].state = "finished"
    /\ future["gemini"].state = "running"

\* C5: in every interleaving the GPT call's result is stored under 'gpt' and
\* passed as Output A, the Gemini call's result is stored under 'gemini' and
\* passed as Output B, and the prompt reaches the providers and the judge
\* unchanged.
C5_ResultsKeepTheirKeys ==
    /\ \A t \in DOMAIN results :
          reply[t] # << >> /\ results[t] = SlotText(t, reply[t][1])
    /\ \A t \in Tasks : requests[t] # << >> =>
             requests[t][1] = [model |-> (IF t = "gpt" THEN "gpt-3.5-turbo"
                                          ELSE "gemini-2.5-pro"),
                               contents |-> TurnPrompt]
    /\ SynthesisEntered =>
          synth_args[1] =
             [original_prompt |-> TurnPrompt,
              gpt_output |-> SlotText("gpt", reply["gpt"][1]),
              gemini_output |-> SlotText("gemini", reply["gemini"][1])]
    /\ requests["judge"] # << >> =>
          /\ Contains(requests["judge"][1].contents,
                "**Original User Prompt:**\n    " \o TurnPrompt \o "\n")
          /\ Contains(requests["judge"][1].contents,
                "**Output A (GPT-3.5):**\n    ---\n    "
                \o SlotText("gpt", reply["gpt"][1]) \o "\n    ---")
          /\ Contains(requests["judge"][1].contents,
                "**Output B (Gemini 2.5 Pro):**\n    ---\n    "
                \o SlotText("gemini", reply["gemini"][1]) \o "\n    ---")

\* the Gemini call finished first, the GPT call second, and the judge was
\* sent the GPT text as Output A
C5_Witness ==
    /\ pc = "judge"
    /\ completed = << "gemini", "gpt" >>
    /\ Succeeded("gpt") /\ Succeeded("gemini")
    /\ Contains(requests["judge"][1].contents, "Output A (GPT-3.5):**\n    ---\n    4\n")

\* C6 (as stated): a client-construction failure at process start is not
\* absorbed into a sentinel string: every invocation of hybrid_agent_execute
\* that ends after such a failure ends by raising.
C6_ConstructionFailurePropagates ==
    ((~client_gpt \/ ~client_gemini) /\ outcome # NoOutcome) =>
       outcome.kind = "raise"

\* C6 (amended): a client-construction failure at process start never leaves
\* hybrid_agent_execute as an exception.  The provider function of an unbuilt
\* client returns its '[<PROVIDER>_ERROR] Failed to get response: name ... is
\* not defined' sentinel, and an invocation that returns returns the
\* '[SYNTHESIS_CRITICAL_ERROR]' sentinel naming the unbound judge client; an
\* invocation raises only for a failed thread start.
C6_ConstructionFailureAbsorbed ==
    (~client_gpt \/ ~client_gemini) =>
       /\ ~client_gemini
       /\ (~client_gpt /\ "gpt" \in DOMAIN results) =>
             results["gpt"] =
                "[GPT_ERROR] Failed to get response: name 'client_gpt' is not defined"
       /\ "gemini" \in DOMAIN results =>
             results["gemini"] =
                "[GEMINI_ERROR] Failed to get response: name 'client_gemini' is not defined"
       /\ outcome.kind = "return" =>
             outcome.value =
                "[SYNTHESIS_CRITICAL_ERROR] Synthesis failed. Error: name 'client_gemini' is not defined"
       /\ outcome.kind = "raise" => outcome.exc = ThreadStartError

C6_Witness ==
    /\ ~client_gpt /\ ~client_gemini
    /\ pc = "returned"
    /\ outcome.kind = "return"
    /\ DOMAIN results = Tasks

\* C7 (as stated): every invocation of hybrid_agent_execute that returns has
\* sent exactly one GPT request, one Gemini request and one judge request.
C7_ExactlyThreeRequests ==
    outcome.kind = "return" =>
       \A e \in Endpoints : Len(requests[e]) = 1

\* C7 (amended): no endpoint is ever sent more than one request by one
\* invocation (nothing is retried), and an invocation that returns has made
\* each of its three calls exactly once: the call sent exactly one request
\* if its client was constructed at start-up and none if it was not.
C7_OneAttemptPerCall ==
    /\ \A e \in Endpoints : Len(requests[e]) <= 1
    /\ outcome.kind = "return" =>
          /\ \A e \in Endpoints : reply[e] # << >>
          /\ Len(requests["gpt"]) = (IF client_gpt THEN 1 ELSE 0)
          /\ Len(requests["gemini"]) = (IF client_gemini THEN 1 ELSE 0)
          /\ Len(requests["judge"]) = (IF client_gemini THEN 1 ELSE 0)

\* both provider calls and the judge call failed, and nothing was sent twice
C7_Witness ==
    /\ pc = "returned"
    /\ client_gpt /\ client_gemini
    /\ Failed("gpt") /\ Failed("gemini") /\ Failed("judge")
    /\ \A e \in Endpoints : Len(requests[e]) = 1

\* C8: once both provider calls have been submitted to the pool, and given
\* that every thread keeps being scheduled and every call that was sent
\* ends, hybrid_agent_execute eventually returns a text to its caller.
C8_EventuallyReturnsText ==
    (pc = "result_gpt") ~>
       (pc = "returned" /\ outcome.kind = "return" /\ outcome.value \in STRING)

C8_Witness ==
    /\ pc = "returned"
    /\ Failed("gpt") /\ Succeeded("gemini") /\ Failed("judge")
    /\ outcome.value \in STRING

\* C9: both provider calls are submitted before the script thread waits on
\* either, and once both are submitted every call still waiting in the queue
\* has a free worker of its own: the Gemini call can start while the GPT
\* call is in progress.
C9_BothCallsCanOverlap ==
    pc \in {"result_gpt", "result_gemini"} =>
       /\ \A t \in Tasks : future[t].state # "none"
       /\ Cardinality(FreeWorkers) >=
             Cardinality({t \in Tasks : future[t].state = "pending"})
       /\ (future["gemini"].state = "pending" /\ future["gpt"].state = "running")
             => \E w \in 1..MaxWorkers : ENABLED WorkerRun(w)

\* the GPT call and the Gemini call are in progress at the same time
C9_Witness ==
    /\ future["gpt"].state = "running"
    /\ future["gemini"].state = "running"
    /\ {worker[w] : w \in 1..MaxWorkers} = Tasks
    /\ pc = "result_gpt"

\* C10: the history starts with the greeting and then alternates user /
\* assistant; while a prompt is being handled its user message is the last
\* entry, and when the handler is done exactly one assistant message follows
\* it: the returned text, or 'A critical error occurred in the Agent
\* pipeline: <error>' if hybrid_agent_execute raised.
C10_HistoryAlternates ==
    /\ messages[1] = Greeting
    /\ \A i \in 2..Len(messages) :
          messages[i].role = (IF i % 2 = 0 THEN "user" ELSE "assistant")
    /\ pc # "idle" =>
          /\ Len(messages) % 2 = 0
          /\ messages[Len(messages)] = [role |-> "user", content |-> user_prompt]
    /\ pc = "idle" =>
          /\ Len(messages) % 2 = 1
          /\ Len(messages) > 1 =>
                /\ messages[Len(messages) - 1] =
                      [role |-> "user", content |-> user_prompt]
                /\ outcome.kind = "return" =>
                      messages[Len(messages)].content = outcome.value
                /\ outcome.kind = "raise" =>
                      messages[Len(messages)].content =
                         "A critical error occurred in the Agent pipeline: "
                         \o outcome.exc
                /\ outcome.kind \in {"return", "raise"}

\* a turn that raised followed by a turn that returned
C10_Witness ==
    /\ pc = "idle"
    /\ Len(messages) = 5
    /\ messages[3].content =
          "A critical error occurred in the Agent pipeline: can't start new thread"
    /\ messages[4].role = "user"
    /\ messages[5].content = "Four."
====
